---------------------------- MODULE Spec2Model ----------------------------
(***************************************************************************)
(* Model of the notebook 3sat-v2.ipynb: the party problem expressed as a   *)
(* Boolean expression string and searched with Grover's algorithm.         *)
(*                                                                         *)
(* Two specifications share the module.                                    *)
(*   SpecEval : the classical reading of the notebook's data: a measured   *)
(*              basis state is labelled, decoded into an assignment of     *)
(*              the four friends and the expression strings are evaluated  *)
(*              on it.                                                     *)
(*   Spec     : the kernel: manual "run cell" actions over the kernel's    *)
(*              global names, each code cell executed statement by         *)
(*              statement.                                                 *)
(***************************************************************************)
EXTENDS Integers, Sequences, FiniteSets, TLC

(***************************************************************************)
(* Expression strings, character by character as they appear in the cells. *)
(***************************************************************************)

\* cell "Define the formal logical expression", first scenario:
\*   log_expr = '((A & B) | (C & D)) & ~(A & D)'
log_expr_1_dropped_not ==
    << "(", "(", "A", " ", "&", " ", "B", ")", " ", "|", " ",
       "(", "C", " ", "&", " ", "D", ")", ")", " ", "&", " ",
       "(", "A", " ", "&", " ", "D", ")" >>

log_expr_1 ==
    << "(", "(", "A", " ", "&", " ", "B", ")", " ", "|", " ",
       "(", "C", " ", "&", " ", "D", ")", ")", " ", "&", " ",
       "~", "(", "A", " ", "&", " ", "D", ")" >>

\* same cell of the second scenario:
\*   log_expr = '((A & C) | (B & D)) & ~(A & D)'
log_expr_2 ==
    << "(", "(", "A", " ", "&", " ", "C", ")", " ", "|", " ",
       "(", "B", " ", "&", " ", "D", ")", ")", " ", "&", " ",
       "~", "(", "A", " ", "&", " ", "D", ")" >>

\* "We'll represent and with "&", or with "|", not with "~""
OpMeaningAndOrSwapped == [c \in {"&", "|", "~"} |->
                 IF c = "&" THEN "or" ELSE IF c = "|" THEN "and" ELSE "not"]

OpMeaning == [c \in {"&", "|", "~"} |->
                 IF c = "&" THEN "and" ELSE IF c = "|" THEN "or" ELSE "not"]

Variables == {"A", "B", "C", "D"}

Assignments == [Variables -> BOOLEAN]

IsOp(c, m) == c \in DOMAIN OpMeaning /\ OpMeaning[c] = m

\* the expression string without its blanks
Tokens(s) == SelectSeq(s, LAMBDA c : c # " ")

(***************************************************************************)
(* Classical evaluation of an expression string under an assignment, by    *)
(* recursive descent with the precedence of the grammar: "~" binds         *)
(* tighter than "&", "&" tighter than "|".  Each parser returns the value  *)
(* read and the index of the first token not consumed.                     *)
(***************************************************************************)
RECURSIVE ParseOr(_, _, _), ParseAnd(_, _, _), ParseNot(_, _, _), ParseAtom(_, _, _)

ParseAtom(t, i, a) ==
    IF t[i] = "("
    THEN LET r == ParseOr(t, i + 1, a) IN [v |-> r.v, i |-> r.i + 1]
    ELSE [v |-> a[t[i]], i |-> i + 1]

ParseNotSkipsNegation(t, i, a) ==
    ParseAtom(t, IF IsOp(t[i], "not") THEN i + 1 ELSE i, a)

ParseNot(t, i, a) ==
    IF IsOp(t[i], "not")
    THEN LET r == ParseNot(t, i + 1, a) IN [v |-> ~r.v, i |-> r.i]
    ELSE ParseAtom(t, i, a)

ParseAnd(t, i, a) ==
    LET l == ParseNot(t, i, a) IN
    IF l.i <= Len(t) /\ IsOp(t[l.i], "and")
    THEN LET r == ParseAnd(t, l.i + 1, a) IN [v |-> l.v /\ r.v, i |-> r.i]
    ELSE l

ParseOr(t, i, a) ==
    LET l == ParseAnd(t, i, a) IN
    IF l.i <= Len(t) /\ IsOp(t[l.i], "or")
    THEN LET r == ParseOr(t, l.i + 1, a) IN [v |-> l.v \/ r.v, i |-> r.i]
    ELSE l

Eval(s, a) == ParseOr(Tokens(s), 1, a).v

\* "((A and B) or (C and D)) and not (A and D)"
PartyFormula(a) == ((a.A /\ a.B) \/ (a.C /\ a.D)) /\ ~(a.A /\ a.D)

(***************************************************************************)
(* The story: Alice and Bob are a couple, Carol and David are a couple,    *)
(* Alice and David are not on speaking terms.                              *)
(***************************************************************************)
Person == [A |-> "Alice", B |-> "Bob", C |-> "Carol", D |-> "David"]

Couples == { {"Alice", "Bob"}, {"Carol", "David"} }

Feud == {"Alice", "David"}

Invited(a) == { Person[x] : x \in {y \in Variables : a[y]} }

Friendly(a) ==
    /\ \E c \in Couples : c \subseteq Invited(a)
    /\ ~(Feud \subseteq Invited(a))

(***************************************************************************)
(* Basis states and their labels.                                          *)
(***************************************************************************)
\* "our four friends"
NumFriends == 4

BasisStates == 0 .. (2 ^ NumFriends - 1)

Bit(n, k) == (n \div (2 ^ k)) % 2

Digit(b) == IF b = 1 THEN "1" ELSE "0"

\* the key of a basis state in the histogram: most significant bit first
BasisLabel(n) == [p \in 1 .. NumFriends |-> Digit(Bit(n, NumFriends - p))]

Labels == [1 .. NumFriends -> {"0", "1"}]

\* "the least significant bit representing Alice"; a bit of 1 invites
DecodeState(n) ==
    [x \in Variables |->
        Bit(n, CASE x = "A" -> 0 [] x = "B" -> 1 [] x = "C" -> 2 [] x = "D" -> 3) = 1]

\* "the variables in the histogram are in reverse order: David-Carol-Bob-Alice"
DecodeLabelBobReadsAlice(s) ==
    [x \in Variables |->
        s[CASE x = "D" -> 1 [] x = "C" -> 2 [] x = "B" -> 4 [] x = "A" -> 4] = "1"]

DecodeLabel(s) ==
    [x \in Variables |->
        s[CASE x = "D" -> 1 [] x = "C" -> 2 [] x = "B" -> 3 [] x = "A" -> 4] = "1"]

\* "the assignments 0011, 0111, 1100, 1110 for David-Carol-Bob-Alice"
Reported == { <<"0", "0", "1", "1">>, <<"0", "1", "1", "1">>,
              <<"1", "1", "0", "0">>, <<"1", "1", "1", "0">> }

Scenarios == {1, 2}

ExprOf(s) == IF s = 1 THEN log_expr_1 ELSE log_expr_2

(***************************************************************************)
(* Optional values: a kernel name is unbound or bound to one value.        *)
(***************************************************************************)
Unbound == << >>

Bind(v) == << v >>

Val(x) == x[1]

\* backend = BasicAer.get_backend('qasm_simulator')
BackendNameStatevector == "statevector_simulator"

BackendName == "qasm_simulator"

\* the backend object the provider hands out for a name
get_backend(name) == [name |-> name]

Cells == {"pip", "imports", "def1", "run1", "def2", "run2", "version"}

DefCell(s) == IF s = 1 THEN "def1" ELSE "def2"

RunCell(s) == IF s = 1 THEN "run1" ELSE "run2"

RunCells == {RunCell(s) : s \in Scenarios}

\* the cells that make up a scenario: its definition cell and its run cell
OwnCells(c) == IF c = "run1" THEN {"def1", "run1"}
               ELSE IF c = "run2" THEN {"def2", "run2"} ELSE {c}

\* the statements of a run cell, in program order
Statements(c) == IF c = "run1" THEN << "backend", "oracle", "grover", "run", "plot" >>
                 ELSE IF c = "run2" THEN << "oracle", "grover", "run", "plot" >>
                 ELSE << >>

\* number of searches a kernel session may perform
MaxRuns == 3

NoDisplay == [kind |-> "none", data |-> Unbound]

VARIABLES
    \* ---- classical reading (SpecEval) ----
    state,      \* the measured basis state, 0 .. 15
    label,      \* its histogram key, Unbound until formatted
    assign,     \* the assignment decoded from the key, Unbound until decoded
    verdict,    \* verdict[s]: value of scenario s's expression on assign
    friendly,   \* whether assign meets the story's constraints
    \* ---- kernel globals (Spec) ----
    imported,   \* BasicAer, qiskit, Grover, LogicalExpressionOracle, plot_histogram bound
    log_expr,   \* Unbound or the expression string
    backend,    \* Unbound or the backend object
    algorithm,  \* Unbound or the Grover object, [oracle |-> ...]
    result,     \* Unbound or the result dictionary, [measurement |-> ...]
    \* ---- the cell being executed ----
    cell,       \* the cell executed last or being executed
    pc,         \* "idle" or the statement of the run cell about to execute
    oracle,     \* the oracle built by this execution, Unbound before
    status,     \* "ok", "running", "NameError" or "LibraryError"
    failedAt,   \* the statement that raised, "none" otherwise
    display,    \* what this execution of the cell has put on screen
    \* ---- history ----
    log,        \* statements completed by this execution, in order
    reads,      \* global names this execution has read, with the cell that bound each
    bound_by,   \* for each global name, the cell that bound it last
    pre,        \* algorithm, result and nruns when this execution began
    nruns       \* searches performed so far in the session

evalVars == << state, label, assign, verdict, friendly >>

globals == << imported, log_expr, backend, algorithm, result >>

execVars == << cell, pc, oracle, status, failedAt, display >>

histVars == << log, reads, bound_by, pre, nruns >>

kernelVars == << globals, execVars, histVars >>

vars == << evalVars, kernelVars >>

GlobalNames == {"log_expr", "backend", "algorithm", "result"}

\* a freshly started kernel: nothing bound, nothing executed
KernelInit ==
    /\ imported = FALSE
    /\ log_expr = Unbound
    /\ backend = Unbound
    /\ algorithm = Unbound
    /\ result = Unbound
    /\ cell = "pip"
    /\ pc = "idle"
    /\ oracle = Unbound
    /\ status = "ok"
    /\ failedAt = "none"
    /\ display = NoDisplay
    /\ log = << >>
    /\ reads = {}
    /\ bound_by = [g \in GlobalNames |-> "none"]
    /\ pre = [algorithm |-> Unbound, result |-> Unbound, nruns |-> 0]
    /\ nruns = 0

\* no measurement is being read
EvalIdle ==
    /\ state = 0
    /\ label = Unbound
    /\ assign = Unbound
    /\ verdict = [s \in Scenarios |-> Unbound]
    /\ friendly = Unbound

EvalInit ==
    /\ state \in BasisStates
    /\ label = Unbound
    /\ assign = Unbound
    /\ verdict = [s \in Scenarios |-> Unbound]
    /\ friendly = Unbound

\* the basis state gets its histogram key
Format ==
    /\ label = Unbound
    /\ label' = Bind(BasisLabel(state))
    /\ UNCHANGED << state, assign, verdict, friendly, kernelVars >>

\* the key is read as David-Carol-Bob-Alice
Decode ==
    /\ label # Unbound
    /\ assign = Unbound
    /\ assign' = Bind(DecodeLabel(Val(label)))
    /\ UNCHANGED << state, label, verdict, friendly, kernelVars >>

\* the expression of scenario s is evaluated classically on the assignment
Evaluate(s) ==
    /\ assign # Unbound
    /\ verdict[s] = Unbound
    /\ verdict' = [verdict EXCEPT ![s] = Bind(Eval(ExprOf(s), Val(assign)))]
    /\ UNCHANGED << state, label, assign, friendly, kernelVars >>

\* the assignment is held against the story
CheckStory ==
    /\ assign # Unbound
    /\ friendly = Unbound
    /\ friendly' = Bind(Friendly(Val(assign)))
    /\ UNCHANGED << state, label, assign, verdict, kernelVars >>

EvalNext ==
    \/ Format
    \/ Decode
    \/ \E s \in Scenarios : Evaluate(s)
    \/ CheckStory

InitEval == EvalInit /\ KernelInit

SpecEval == InitEval /\ [][EvalNext]_vars


(***************************************************************************)
(* The kernel.  One cell executes at a time; a run cell executes its       *)
(* statements in program order and an uncaught exception ends it.          *)
(***************************************************************************)

\* the statement after the one at pc, "idle" after the last
NextStmt ==
    LET st == Statements(cell)
        k  == CHOOSE j \in 1 .. Len(st) : st[j] = pc
    IN  IF k = Len(st) THEN "idle" ELSE st[k + 1]

Read(g) == [name |-> g, by |-> bound_by[g]]

\* a cell execution begins: nothing done yet
BeginCell(c) ==
    /\ pc = "idle"
    /\ cell' = c
    /\ oracle' = Unbound
    /\ failedAt' = "none"
    /\ log' = << >>
    /\ reads' = {}
    /\ pre' = [algorithm |-> algorithm, result |-> result, nruns |-> nruns]

\* the statement at pc completed
Advance ==
    /\ log' = Append(log, pc)
    /\ pc' = NextStmt
    /\ status' = IF NextStmt = "idle" THEN "ok" ELSE "running"
    /\ failedAt' = "none"
    /\ UNCHANGED << cell, pre >>

\* the statement at pc raised after reading rd: nothing catches it, the
\* cell ends there and no name is bound
RaiseUnbindsResult(kind, rd) ==
    /\ pc' = "idle"
    /\ status' = kind
    /\ failedAt' = pc
    /\ reads' = reads \cup rd
    /\ result' = Unbound
    /\ UNCHANGED << imported, log_expr, backend, algorithm >>
    /\ UNCHANGED << cell, oracle, display, log, bound_by, pre, nruns, evalVars >>

Raise(kind, rd) ==
    /\ pc' = "idle"
    /\ status' = kind
    /\ failedAt' = pc
    /\ reads' = reads \cup rd
    /\ UNCHANGED << imported, log_expr, backend, algorithm, result >>
    /\ UNCHANGED << cell, oracle, display, log, bound_by, pre, nruns, evalVars >>

\* !pip install ...: shell commands, no kernel name is touched
RunPipCell ==
    /\ BeginCell("pip")
    /\ display' = NoDisplay
    /\ status' = "ok"
    /\ UNCHANGED << globals, pc, bound_by, nruns, evalVars >>

\* from qiskit import BasicAer, qiskit ... plot_histogram
RunImportsCell ==
    /\ BeginCell("imports")
    /\ display' = NoDisplay
    /\ imported' = TRUE
    /\ status' = "ok"
    /\ UNCHANGED << log_expr, backend, algorithm, result, pc, bound_by, nruns, evalVars >>

\* log_expr = '...'
RunDefCell(s) ==
    /\ BeginCell(DefCell(s))
    /\ display' = NoDisplay
    /\ log_expr' = Bind(ExprOf(s))
    /\ bound_by' = [bound_by EXCEPT !["log_expr"] = DefCell(s)]
    /\ status' = "ok"
    /\ UNCHANGED << imported, backend, algorithm, result, pc, nruns, evalVars >>

\* qiskit.__qiskit_version__
RunVersionCell ==
    /\ BeginCell("version")
    /\ IF imported
       THEN /\ status' = "ok"
            /\ display' = [kind |-> "versions", data |-> Unbound]
       ELSE /\ status' = "NameError"
            /\ display' = NoDisplay
    /\ UNCHANGED << globals, pc, bound_by, nruns, evalVars >>

\* the kernel takes up the run cell of scenario s
StartRunCell(s) ==
    /\ nruns < MaxRuns
    /\ BeginCell(RunCell(s))
    /\ display' = NoDisplay
    /\ pc' = Statements(RunCell(s))[1]
    /\ status' = "running"
    /\ UNCHANGED << globals, bound_by, nruns, evalVars >>

\* backend = BasicAer.get_backend('qasm_simulator')
GetBackend ==
    /\ pc = "backend"
    /\ IF ~imported
       THEN Raise("NameError", {})
       ELSE \/ Raise("LibraryError", {})
            \/ /\ backend' = Bind(get_backend(BackendName))
               /\ bound_by' = [bound_by EXCEPT !["backend"] = cell]
               /\ Advance
               /\ UNCHANGED << imported, log_expr, algorithm, result >>
               /\ UNCHANGED << oracle, display, reads, nruns, evalVars >>

\* LogicalExpressionOracle(log_expr), the argument of Grover(...)
ConstructOracleOwnExpression ==
    /\ pc = "oracle"
    /\ IF ~imported \/ log_expr = Unbound
       THEN Raise("NameError", {})
       ELSE \/ Raise("LibraryError", {Read("log_expr")})
            \/ /\ oracle' = Bind([expr |-> ExprOf(IF cell = "run1" THEN 1 ELSE 2)])
               /\ reads' = reads \cup {Read("log_expr")}
               /\ Advance
               /\ UNCHANGED << globals, display, bound_by, nruns, evalVars >>

ConstructOracle ==
    /\ pc = "oracle"
    /\ IF ~imported \/ log_expr = Unbound
       THEN Raise("NameError", {})
       ELSE \/ Raise("LibraryError", {Read("log_expr")})
            \/ /\ oracle' = Bind([expr |-> Val(log_expr)])
               /\ reads' = reads \cup {Read("log_expr")}
               /\ Advance
               /\ UNCHANGED << globals, display, bound_by, nruns, evalVars >>

\* algorithm = Grover(<the oracle>)
ConstructGrover ==
    /\ pc = "grover"
    /\ \/ Raise("LibraryError", {})
       \/ /\ algorithm' = Bind([oracle |-> Val(oracle)])
          /\ bound_by' = [bound_by EXCEPT !["algorithm"] = cell]
          /\ Advance
          /\ UNCHANGED << imported, log_expr, backend, result >>
          /\ UNCHANGED << oracle, display, reads, nruns, evalVars >>

\* result = algorithm.run(backend)
RunAlgorithmKeepsFirstResult ==
    /\ pc = "run"
    /\ IF algorithm = Unbound \/ backend = Unbound
       THEN Raise("NameError", IF algorithm = Unbound THEN {} ELSE {Read("algorithm")})
       ELSE \/ Raise("LibraryError", {Read("algorithm"), Read("backend")})
            \/ /\ result' = IF result = Unbound
                            THEN Bind([measurement |->
                                      [run     |-> nruns + 1,
                                       expr    |-> Val(algorithm).oracle.expr,
                                       backend |-> Val(backend)]])
                            ELSE result
               /\ bound_by' = [bound_by EXCEPT !["result"] = cell]
               /\ nruns' = nruns + 1
               /\ reads' = reads \cup {Read("algorithm"), Read("backend")}
               /\ Advance
               /\ UNCHANGED << imported, log_expr, backend, algorithm >>
               /\ UNCHANGED << oracle, display, evalVars >>

RunAlgorithm ==
    /\ pc = "run"
    /\ IF algorithm = Unbound \/ backend = Unbound
       THEN Raise("NameError", IF algorithm = Unbound THEN {} ELSE {Read("algorithm")})
       ELSE \/ Raise("LibraryError", {Read("algorithm"), Read("backend")})
            \/ /\ result' = Bind([measurement |->
                                    [run     |-> nruns + 1,
                                     expr    |-> Val(algorithm).oracle.expr,
                                     backend |-> Val(backend)]])
               /\ bound_by' = [bound_by EXCEPT !["result"] = cell]
               /\ nruns' = nruns + 1
               /\ reads' = reads \cup {Read("algorithm"), Read("backend")}
               /\ Advance
               /\ UNCHANGED << imported, log_expr, backend, algorithm >>
               /\ UNCHANGED << oracle, display, evalVars >>

\* plot_histogram(result['measurement'])
PlotHistogram ==
    /\ pc = "plot"
    /\ IF result = Unbound
       THEN Raise("NameError", {})
       ELSE \/ Raise("LibraryError", {Read("result")})
            \/ /\ display' = [kind |-> "histogram", data |-> Bind(Val(result).measurement)]
               /\ reads' = reads \cup {Read("result")}
               /\ Advance
               /\ UNCHANGED << globals, oracle, bound_by, nruns, evalVars >>

Init == KernelInit /\ EvalIdle

Next ==
    \/ RunPipCell
    \/ RunImportsCell
    \/ \E s \in Scenarios : RunDefCell(s)
    \/ \E s \in Scenarios : StartRunCell(s)
    \/ GetBackend
    \/ ConstructOracle
    \/ ConstructGrover
    \/ RunAlgorithm
    \/ PlotHistogram
    \/ RunVersionCell

Spec == Init /\ [][Next]_vars

(***************************************************************************)
(* Properties of the classical reading, checked under SpecEval.            *)
(***************************************************************************)

Range(q) == { q[j] : j \in DOMAIN q }

IsPrefix(p, q) == Len(p) <= Len(q) /\ p = SubSeq(q, 1, Len(p))

\* C1: each of the four keys the notebook reports for the first scenario
\* (0011, 0111, 1100, 1110, read David-Carol-Bob-Alice) makes the first
\* scenario's expression string true when it is evaluated classically.
C1_ReportedSatisfy ==
    (label # Unbound /\ Val(label) \in Reported /\ verdict[1] # Unbound)
        => Val(verdict[1]) = TRUE

C1_Witness ==
    /\ label = Bind(<< "1", "1", "1", "0" >>)
    /\ assign = Bind([A |-> FALSE, B |-> TRUE, C |-> TRUE, D |-> TRUE])
    /\ verdict[1] = Bind(TRUE)

\* C2: a key is four bits whose rightmost bit is the least significant one
\* and stands for Alice, read left to right as David, Carol, Bob, Alice, a 1
\* inviting the person; every key decodes to one assignment of A, B, C, D
\* and no other key decodes to the same assignment.
C2_DecodeInjective ==
    /\ label # Unbound =>
          /\ Val(label) \in Labels
          /\ Val(label)[NumFriends] = Digit(state % 2)
    /\ assign # Unbound =>
          /\ Val(assign) \in Assignments
          /\ Val(assign) = DecodeState(state)
          /\ Val(assign).A = (Val(label)[4] = "1")
          /\ Val(assign).B = (Val(label)[3] = "1")
          /\ Val(assign).C = (Val(label)[2] = "1")
          /\ Val(assign).D = (Val(label)[1] = "1")
          /\ \A t \in Labels : t # Val(label) => DecodeLabel(t) # Val(assign)

C2_Witness ==
    /\ state = 6
    /\ label = Bind(<< "0", "1", "1", "0" >>)
    /\ assign = Bind([A |-> FALSE, B |-> TRUE, C |-> TRUE, D |-> FALSE])

\* C3: read with "&" as and, "|" as or and "~" as not, the first scenario's
\* expression string has the truth value of the prose formula
\* ((A and B) or (C and D)) and not (A and D) on every assignment.
C3_StringMatchesProse ==
    verdict[1] # Unbound => Val(verdict[1]) = PartyFormula(Val(assign))

C3_Witness ==
    /\ label = Bind(<< "1", "0", "1", "1" >>)
    /\ verdict[1] = Bind(FALSE)

\* C4: an assignment satisfies the first scenario's expression exactly when
\* it invites at least one complete couple and does not invite Alice and
\* David together.
C4_FormulaEncodesStory ==
    (verdict[1] # Unbound /\ friendly # Unbound) => verdict[1] = friendly

C4_Witness ==
    /\ label = Bind(<< "1", "1", "0", "0" >>)
    /\ verdict[1] = Bind(TRUE)
    /\ friendly = Bind(TRUE)

\* C5: the second scenario's expression string has the same satisfying
\* assignments as the party-problem formula of the first scenario.
C5_SecondMatchesParty ==
    (verdict[1] # Unbound /\ verdict[2] # Unbound) => verdict[1] = verdict[2]

(***************************************************************************)
(* Properties of the kernel, checked under Spec.                           *)
(***************************************************************************)

RunOrder == << "oracle", "grover", "run", "plot" >>

\* C6: a run cell constructs the oracle from the current log_expr, then
\* constructs the algorithm from that oracle, then runs it on the backend,
\* then plots the measurement of that run's result: each step at most once
\* per execution and in this order, no plot before the run has returned, and
\* the mapping plotted is the one returned by the run of the same execution.
C6_StepsInOrder ==
    cell \in RunCells =>
        /\ IF cell = "run1"
           THEN log = << >> \/ (Head(log) = "backend" /\ IsPrefix(Tail(log), RunOrder))
           ELSE IsPrefix(log, RunOrder)
        /\ "oracle" \in Range(log) => oracle = Bind([expr |-> Val(log_expr)])
        /\ "grover" \in Range(log) => algorithm = Bind([oracle |-> Val(oracle)])
        /\ "run" \in Range(log) =>
              /\ nruns = pre.nruns + 1
              /\ result = Bind([measurement |->
                                  [run     |-> nruns,
                                   expr    |-> Val(algorithm).oracle.expr,
                                   backend |-> Val(backend)]])
        /\ "run" \notin Range(log) => nruns = pre.nruns
        /\ (display.kind = "histogram") = ("plot" \in Range(log))
        /\ display.kind = "histogram" =>
              /\ "run" \in Range(log)
              /\ display.data = Bind(Val(result).measurement)
              /\ Val(display.data).run > pre.nruns

C6_Witness ==
    /\ cell = "run2"
    /\ pc = "idle"
    /\ status = "ok"
    /\ log = RunOrder
    /\ pre.result # Unbound
    /\ display = [kind |-> "histogram", data |-> Bind(Val(result).measurement)]

\* C7 as stated: the expression a run cell searches and the backend it uses
\* are determined by the scenario's own cells alone, that is, every value of
\* log_expr or backend a run cell reads was bound by a cell of its scenario.
C7_OwnCellsOnly ==
    cell \in RunCells =>
        \A r \in reads : r.name \in {"log_expr", "backend"} => r.by \in OwnCells(cell)

\* C7 amended: the cells share the kernel's global names.  A run cell
\* searches the expression bound to log_expr by the definition cell, of
\* either scenario, executed last; the backend it uses is the one bound by
\* the first run cell; and its run statement fails on an unbound name
\* exactly when no execution of the first run cell has bound backend.
C7_SharedGlobals ==
    cell \in RunCells =>
        /\ \A r \in reads : r.name = "log_expr" =>
              /\ r.by \in {"def1", "def2"}
              /\ r.by = bound_by["log_expr"]
              /\ "oracle" \in Range(log) =>
                    Val(oracle).expr = ExprOf(IF r.by = "def1" THEN 1 ELSE 2)
        /\ \A r \in reads : r.name = "backend" => r.by = "run1"
        /\ "oracle" \in Range(log) => Read("log_expr") \in reads
        /\ "run" \in Range(log) => Read("backend") \in reads
        /\ failedAt = "oracle" =>
              ((status = "NameError") = (~imported \/ log_expr = Unbound))
        /\ failedAt = "run" =>
              ((status = "NameError") = (bound_by["backend"] = "none"))

C7_Witness ==
    /\ cell = "run2"
    /\ pc = "idle"
    /\ status = "ok"
    /\ [name |-> "log_expr", by |-> "def1"] \in reads
    /\ [name |-> "backend", by |-> "run1"] \in reads
    /\ Val(result).measurement.expr = log_expr_1

\* C8: a failure raised by the oracle construction, the algorithm
\* construction or the run is not caught: the cell stops at the failing
\* statement, this execution plots no histogram, and algorithm and result,
\* where the failing or a later statement would have assigned them, keep
\* the values they had when the cell was started.
C8_FailureStopsCell ==
    (cell \in RunCells /\ failedAt \in {"oracle", "grover", "run"}) =>
        /\ pc = "idle"
        /\ status \in {"NameError", "LibraryError"}
        /\ failedAt \notin Range(log)
        /\ "plot" \notin Range(log)
        /\ IsPrefix(Append(log, failedAt), Statements(cell))
        /\ display = NoDisplay
        /\ failedAt \in {"oracle", "grover"} =>
              algorithm = pre.algorithm /\ result = pre.result
        /\ failedAt = "run" => result = pre.result

C8_Witness ==
    /\ cell = "run2"
    /\ failedAt = "run"
    /\ status = "LibraryError"
    /\ result # Unbound
    /\ result = pre.result
    /\ algorithm # pre.algorithm

\* C9: every search runs on the simulated backend 'qasm_simulator': when a
\* run cell has completed its run, the backend passed to it is the one the
\* first run cell obtained by BasicAer.get_backend('qasm_simulator'), and
\* backend is never bound to anything else.
C9_QasmSimulator ==
    /\ backend \in {Unbound, Bind([name |-> "qasm_simulator"])}
    /\ backend # Unbound => bound_by["backend"] = "run1"
    /\ result # Unbound => Val(result).measurement.backend = [name |-> "qasm_simulator"]
    /\ (cell \in RunCells /\ "run" \in Range(log)) =>
          /\ [name |-> "backend", by |-> "run1"] \in reads
          /\ Val(result).measurement.backend = Val(backend)

C9_Witness ==
    /\ cell = "run2"
    /\ pc = "idle"
    /\ status = "ok"
    /\ "run" \in Range(log)
    /\ Val(result).measurement.backend = [name |-> "qasm_simulator"]

=============================================================================
